---- MODULE Spec2Model ----
(***************************************************************************)
(* Model of the automated website auditor: the batch runner `main` (both   *)
(* variants found in the repository), WebsiteAuditor.auditWebsite with its *)
(* probes, and the shared browser session.                                 *)
(*                                                                         *)
(* JavaScript values are modelled as follows: null is the string "null",   *)
(* an object is a record, an array is a sequence, a thrown Error is a      *)
(* record [message |-> ...].  A text is a record [len, words]: its length  *)
(* in characters and the occurrences of the words the scans look for, each *)
(* with its start position and whether it is written in upper case.        *)
(***************************************************************************)
EXTENDS Integers, Sequences, FiniteSets, TLC

\* ------------------------------------------------------------------ bounds
MaxSites == 2          \* longest list of websites in a batch
MaxOverlays == 2       \* most elements one overlay scan matches
MaxPlatforms == 2      \* most email-platform signatures present on a page
MaxAnchors == 4        \* most anchors on a homepage
MaxCount == 2          \* largest element count a check probe reports
MaxCloses == 2         \* most close() calls a client makes on one browser

Null == "null"

Min(a, b) == IF a < b THEN a ELSE b

\* ------------------------------------------------------------- the session
defaultViewport == [width |-> 1920, height |-> 1080]
mobileViewport == [width |-> 375, height |-> 667]

\* ------------------------------------------------------------------- texts
\* Length of each word the scans look for.
WordLen(w) ==
    CASE w = "subscribe" -> 9
      [] w = "newsletter" -> 10
      [] w = "email" -> 5
      [] w = "discount" -> 8
      [] w = "offer" -> 5
      [] w = "save" -> 4
      [] w = "%" -> 1
      [] w = "off" -> 3

\* String.prototype.includes on single words: "offer" contains "off".
WordIncludes(w, k) == w = k \/ (w = "offer" /\ k = "off")

Occ(w, at, upper) == [w |-> w, at |-> at, upper |-> upper]

\* String.prototype.toLowerCase
ToLowerCase(text) ==
    [text EXCEPT !.words = {Occ(o.w, o.at, FALSE) : o \in text.words}]

\* String.prototype.includes: case-sensitive search for the lower-case word k
Includes(text, k) ==
    \E o \in text.words : ~o.upper /\ WordIncludes(o.w, k)

\* String.prototype.substring(0, n): occurrences past n are dropped; of a
\* word cut at n only "offer" keeps a prefix ("off") the scans can find.
Substring(text, n) ==
    [len |-> Min(text.len, n),
     words |-> {o \in text.words : o.at + WordLen(o.w) <= n}
               \cup {Occ("off", o.at, o.upper) : o \in
                        {p \in text.words : p.w = "offer" /\ p.at + 3 <= n
                                            /\ p.at + WordLen(p.w) > n}}]

\* Texts an element may carry.
Texts ==
    { [len |-> 10, words |-> {Occ("save", 0, FALSE)}],            \* "save today"
      [len |-> 11, words |-> {Occ("email", 0, FALSE)}],           \* "email today"
      [len |-> 30, words |-> {}],                                \* no keyword
      [len |-> 11, words |-> {Occ("%", 6, FALSE), Occ("off", 8, FALSE)}],
      [len |-> 22, words |-> {Occ("subscribe", 0, TRUE)}],
      [len |-> 25, words |-> {Occ("newsletter", 9, TRUE)}],
      [len |-> 13, words |-> {Occ("offer", 8, FALSE)}],
      [len |-> 260, words |-> {Occ("discount", 230, FALSE)}],
      [len |-> 260, words |-> {Occ("offer", 197, FALSE)}] }

\* Rendered boxes of an element: {rect.width, rect.height, display, visibility}
ShownBox == [width |-> 300, height |-> 200, display |-> "block", visibility |-> "visible"]

HiddenBoxes ==
    { [ShownBox EXCEPT !.width = 0],
      [ShownBox EXCEPT !.height = 0],
      [ShownBox EXCEPT !.display = "none"],
      [ShownBox EXCEPT !.visibility = "hidden"] }

Boxes == {ShownBox} \cup HiddenBoxes

\* One match of a popup selector: the selector and the element it matched.
Element(box, hasEmailInput, text) ==
    [selector |-> "[class*=\"popup\"]", box |-> box, hasEmailInput |-> hasEmailInput,
     text |-> text]

\* The elements a scan may meet: a shown element with any content, and, for
\* each way of not being shown, a newsletter form with an email input.
Elements ==
    {Element(ShownBox, e, t) : e \in BOOLEAN, t \in Texts}
    \cup {Element(b, TRUE, [len |-> 25, words |-> {Occ("newsletter", 9, TRUE)}]) :
            b \in HiddenBoxes}

SeqsUpTo(S, n) == UNION {[1..k -> S] : k \in 0..n}

\* ------------------------------------------ detectPopupsAndEmailPlatforms
\* The registry of email platforms, in the order the page scan tests them.
PlatformRegistry ==
    <<"Klaviyo", "Mailchimp", "Omnisend", "Privy", "Justuno", "OptinMonster",
      "Wisepops", "Sumo">>

PlatformNames == {PlatformRegistry[i] : i \in DOMAIN PlatformRegistry}

\* A faulty variant: Klaviyo is pushed once for each of its signatures.
ScanEmailPlatformsPerSignature(present) ==
    LET once == SelectSeq(PlatformRegistry, LAMBDA p : p \in present)
    IN  IF "Klaviyo" \in present THEN <<"Klaviyo">> \o once ELSE once

\* The first page.evaluate: every platform whose signature is present, each
\* tested once, in registry order.
ScanEmailPlatforms(present) ==
    SelectSeq(PlatformRegistry, LAMBDA p : p \in present)

IsVisible(box) ==
    /\ box.width > 0
    /\ box.height > 0
    /\ box.display # "none"
    /\ box.visibility # "hidden"

HasSubscribeText(text) ==
    \/ Includes(ToLowerCase(text), "subscribe")
    \/ Includes(ToLowerCase(text), "newsletter")
    \/ Includes(ToLowerCase(text), "email")
    \/ Includes(ToLowerCase(text), "discount")
    \/ Includes(ToLowerCase(text), "offer")
    \/ Includes(ToLowerCase(text), "save")

\* A faulty variant: any visible element with a long enough text qualifies.
IsPopupCandidateAnyText(el) ==
    /\ IsVisible(el.box)
    /\ el.text.len > 10

\* A faulty variant: a text of exactly 10 characters is long enough.
IsPopupCandidateFromTen(el) ==
    /\ IsVisible(el.box)
    /\ (el.hasEmailInput \/ HasSubscribeText(el.text))
    /\ el.text.len >= 10

\* The condition under which a matched element is pushed to `popups`.
IsPopupCandidate(el) ==
    /\ IsVisible(el.box)
    /\ (el.hasEmailInput \/ HasSubscribeText(el.text))
    /\ el.text.len > 10

\* The descriptor pushed for a candidate (classes and id are copied from the
\* element unchanged and are left out).
PopupDescriptor(el) ==
    [selector |-> el.selector,
     hasEmailInput |-> el.hasEmailInput,
     text |-> Substring(el.text, 200),
     width |-> el.box.width,
     height |-> el.box.height]

\* The second page.evaluate: the descriptors of the candidates, in match order.
ScanPopupElements(matches) ==
    LET kept == SelectSeq(matches, IsPopupCandidate)
    IN  [i \in 1..Len(kept) |-> PopupDescriptor(kept[i])]

HasDiscountText(p) ==
    LET text == ToLowerCase(p.text)
    IN  \/ Includes(text, "discount")
        \/ Includes(text, "save")
        \/ Includes(text, "%")
        \/ Includes(text, "off")

\* A faulty variant: the two single-signal branches exchanged.
ClassifyPopupTypeSwapped(popupElements) ==
    LET hasEmailInput == \E i \in DOMAIN popupElements : popupElements[i].hasEmailInput
        hasDiscountText == \E i \in DOMAIN popupElements : HasDiscountText(popupElements[i])
    IN  IF hasEmailInput /\ hasDiscountText THEN "Email + Discount"
        ELSE IF hasDiscountText THEN "Email Signup"
        ELSE IF hasEmailInput THEN "Discount Offer"
        ELSE "General Popup"

\* "Classify popup type": two independent `some` over all descriptors.
ClassifyPopupType(popupElements) ==
    LET hasEmailInput == \E i \in DOMAIN popupElements : popupElements[i].hasEmailInput
        hasDiscountText == \E i \in DOMAIN popupElements : HasDiscountText(popupElements[i])
    IN  IF hasEmailInput /\ hasDiscountText THEN "Email + Discount"
        ELSE IF hasEmailInput THEN "Email Signup"
        ELSE IF hasDiscountText THEN "Discount Offer"
        ELSE "General Popup"

DefaultPopupData ==
    [hasPopup |-> FALSE,
     popupType |-> Null,
     emailPlatform |-> Null,
     popupDetails |-> <<>>,
     emailPlatformDetails |-> <<>>]

\* What one call observes: which step faults (if any), the platform
\* signatures present on the page, and the elements the selectors match.
ProbeFaults == {"none", "settle", "platforms", "overlays"}

\* The body of the try block: popupData as it stands when the block is left,
\* and whether it was left by a fault.
DetectTry(probe) ==
    LET emailPlatforms == ScanEmailPlatforms(probe.present)
        afterPlatforms ==
            [DefaultPopupData EXCEPT
                !.emailPlatformDetails = emailPlatforms,
                !.emailPlatform = IF Len(emailPlatforms) > 0 THEN emailPlatforms[1] ELSE Null]
        popupElements == ScanPopupElements(probe.matches)
        afterOverlays ==
            IF Len(popupElements) > 0
            THEN [afterPlatforms EXCEPT
                    !.hasPopup = TRUE,
                    !.popupDetails = popupElements,
                    !.popupType = ClassifyPopupType(popupElements)]
            ELSE afterPlatforms
    IN  CASE probe.fault = "settle" -> [faulted |-> TRUE, popupData |-> DefaultPopupData]
          [] probe.fault = "platforms" -> [faulted |-> TRUE, popupData |-> DefaultPopupData]
          [] probe.fault = "overlays" -> [faulted |-> TRUE, popupData |-> afterPlatforms]
          [] OTHER -> [faulted |-> FALSE, popupData |-> afterOverlays]

\* A faulty variant: a catch block that rethrows.
DetectRethrowing(probe) ==
    LET r == DetectTry(probe)
    IN  [raised |-> r.faulted, value |-> r.popupData]

\* The whole method: the catch logs the fault and falls through to the return.
DetectPopupsAndEmailPlatforms(probe) ==
    LET r == DetectTry(probe)
    IN  [raised |-> FALSE, value |-> r.popupData]

\* The probes of the stand-alone detection specification.
\* The platforms whose signatures the probed pages carry: the first two of
\* the registry and its last.
PagePlatforms == {"Klaviyo", "Mailchimp", "Sumo"}

Probes ==
    [fault : ProbeFaults,
     present : {S \in SUBSET PagePlatforms : Cardinality(S) <= MaxPlatforms},
     matches : SeqsUpTo(Elements, MaxOverlays)]

\* ------------------------------------------------------------- settings
\* config/settings.js, the fields the auditor and the runner read.
defaultSettings ==
    [browser |-> [headless |-> FALSE, defaultViewport |-> [width |-> 1920, height |-> 1080]],
     audit |-> [navigationTimeout |-> 30000, pageLoadDelay |-> 2000,
                popupDetectionDelay |-> 5000, maxProductPages |-> 3,
                delayBetweenAudits |-> 2000],
     performance |-> [slowLoadTime |-> 3000, maxImageCount |-> 50, maxScriptCount |-> 20]]

\* The options config/local.json may supply, as <<section, field>>, and the
\* values it gives them (none of them the default).
Options ==
    { <<"audit", "navigationTimeout">>, <<"audit", "maxProductPages">>,
      <<"audit", "delayBetweenAudits">>, <<"browser", "headless">>,
      <<"browser", "defaultViewport">>, <<"performance", "slowLoadTime">> }

CustomValue(section, field) ==
    CASE field = "navigationTimeout" -> 60000
      [] field = "maxProductPages" -> 5
      [] field = "delayBetweenAudits" -> 1000
      [] field = "headless" -> TRUE
      [] field = "defaultViewport" -> [width |-> 1280, height |-> 720]
      [] field = "slowLoadTime" -> 5000

\* JSON.parse of config/local.json: the sections it names, each with the
\* fields it names.
CustomRecord(supplied) ==
    [section \in {o[1] : o \in supplied} |->
        [field \in {o[2] : o \in {q \in supplied : q[1] = section}} |->
            CustomValue(section, field)]]

\* ConfigManager.getSettings: { ...this.defaultSettings, ...customSettings },
\* a spread of the top level: a section of local.json replaces the default
\* section whole.
GetSettings(supplied) ==
    LET custom == CustomRecord(supplied)
    IN  [section \in DOMAIN defaultSettings \cup DOMAIN custom |->
            IF section \in DOMAIN custom THEN custom[section]
            ELSE defaultSettings[section]]

\* `section?.field || dflt`: the default replaces a missing section, a missing
\* field and a falsy (zero) value alike.
OrDefault(settings, section, field, dflt) ==
    IF section \in DOMAIN settings
       /\ field \in DOMAIN settings[section]
       /\ settings[section][field] # 0
    THEN settings[section][field]
    ELSE dflt

\* ------------------------------------------------------ findProductPages
\* An anchor's href: {protocol, the path segment that marks it, target, hash}.
Href(protocol, segment, name, hash) ==
    [protocol |-> protocol, segment |-> segment, name |-> name, hash |-> hash]

Hrefs ==
    { Href("https:", "/products/", "a", FALSE),
      Href("https:", "/products/", "b", FALSE),
      Href("https:", "/Shop/", "c", FALSE),
      Href("http:", "/store/", "d", FALSE),
      Href("https:", "/about/", "us", FALSE),
      Href("https:", "/products/", "a", TRUE) }

LowerSegment(segment) == IF segment = "/Shop/" THEN "/shop/" ELSE segment

\* The filter of the in-page scan.
IsProductHref(href) ==
    /\ LowerSegment(href.segment) \in {"/products/", "/product/", "/shop/", "/store/"}
    /\ ~href.hash
    /\ href.protocol \in {"http:", "https:"}

\* Array.prototype.slice(0, n)
Slice(seq, n) == SubSeq(seq, 1, Min(Len(seq), n))

\* [...new Set(seq)]: first occurrences, in order
RECURSIVE Dedup(_)
Dedup(seq) ==
    IF seq = <<>> THEN <<>>
    ELSE LET front == Dedup(SubSeq(seq, 1, Len(seq) - 1))
             last == seq[Len(seq)]
         IN  IF \E i \in DOMAIN front : front[i] = last THEN front
             ELSE Append(front, last)

\* page = [fault, anchors]: whether the in-page scan faults, and the hrefs of
\* the anchors in document order.
FindProductPages(settings, page) ==
    LET maxPages == OrDefault(settings, "audit", "maxProductPages", 3)
        productLinks == Slice(SelectSeq(page.anchors, IsProductHref), maxPages * 2)
    IN  IF page.fault THEN <<>> ELSE Dedup(productLinks)

\* A faulty variant: the loop visits every link that was found.
ProductLoopUnbounded(productLinks) == Len(productLinks)

\* How many product pages the capture loop visits.
ProductLoopBound(productLinks) == Min(3, Len(productLinks))

\* ---------------------------------------------------- runAutomatedChecks
\* Times are in tenths of a millisecond (navigation timing is fractional).
Round(t10) == (t10 + 5) \div 10

\* What the battery's five probes would observe on the page, and which of
\* them (0 = none) faults.
CheckPages ==
    [faultAt : 0..5,
     hasMetaDescription : BOOLEAN,
     imagesWithoutAlt : 0..MaxCount,
     h1Count : 0..MaxCount,
     isHTTPS : BOOLEAN,
     loadTime10 : {12000, 30004, 45000}]

Issue(type, text) == [type |-> type, issue |-> text]

FaultMessage(k) ==
    IF k = 5 THEN "Cannot read properties of undefined (reading 'loadEventEnd')"
    ELSE "Execution context was destroyed"

\* A faulty variant: the alt check pushes one issue per image and the other
\* checks push nothing.
CheckIssuesPerImage(k, settings, page) ==
    IF k = 2
    THEN [i \in 1..page.imagesWithoutAlt |->
            Issue("Accessibility", "1 images missing alt text")]
    ELSE <<>>

\* The issues check k pushes when its probe answers.
CheckIssues(k, settings, page) ==
    CASE k = 1 -> IF ~page.hasMetaDescription
                  THEN <<Issue("SEO", "Missing meta description")>> ELSE <<>>
      [] k = 2 -> IF page.imagesWithoutAlt > 0
                  THEN <<Issue("Accessibility",
                               ToString(page.imagesWithoutAlt) \o " images missing alt text")>>
                  ELSE <<>>
      [] k = 3 -> IF page.h1Count = 0 THEN <<Issue("SEO", "No H1 tag found")>>
                  ELSE IF page.h1Count > 1 THEN <<Issue("SEO", "Multiple H1 tags found")>>
                  ELSE <<>>
      [] k = 4 -> IF ~page.isHTTPS
                  THEN <<Issue("Security", "Site not using HTTPS")>> ELSE <<>>
      [] k = 5 -> IF page.loadTime10 > 10 * OrDefault(settings, "performance", "slowLoadTime", 3000)
                  THEN <<Issue("Performance",
                               "Slow page load time: " \o ToString(Round(page.loadTime10)) \o "ms")>>
                  ELSE <<>>

ErrorIssue(k) == Issue("Error", "Could not complete all checks: " \o FaultMessage(k))

\* A faulty variant: a catch block that records nothing.
RECURSIVE ChecksFromSwallowing(_, _, _, _)
ChecksFromSwallowing(k, settings, page, issues) ==
    IF k > 5 THEN issues
    ELSE IF page.faultAt = k THEN issues
    ELSE ChecksFromSwallowing(k + 1, settings, page, issues \o CheckIssues(k, settings, page))

\* The try block from check k on, and its catch: the first faulting probe
\* ends the battery with one Error issue.
RECURSIVE ChecksFrom(_, _, _, _)
ChecksFrom(k, settings, page, issues) ==
    IF k > 5 THEN issues
    ELSE IF page.faultAt = k THEN Append(issues, ErrorIssue(k))
    ELSE ChecksFrom(k + 1, settings, page, issues \o CheckIssues(k, settings, page))

RunAutomatedChecks(settings, page) == ChecksFrom(1, settings, page, <<>>)

\* ------------------------------------------------------------ the state
VARIABLES
    runner,        \* which `main` runs: "isolating" (per-site try/catch) or "halting"
    websites,      \* configManager.loadWebsites()
    settings,      \* configManager.getSettings()
    mainPc,        \* position of main
    idx,           \* 1-based position of the for-of loop in websites
    results,       \* the records main has received from auditWebsite, in order
                   \* (the `results` array of the isolating runner)
    exitCode,      \* the process's exit status, -1 while it runs
    browser,       \* this.browser: "null", "open" or "closed"
    viewport,      \* the viewport of this.page
    auditPc,       \* position of auditWebsite
    auditData,     \* the record auditWebsite assembles
    auditErr,      \* the error the catch block of auditWebsite received
    ret,           \* what auditWebsite returned, or the error it threw
    productLinks,  \* the result of findProductPages
    pi,            \* the index i of the product loop
    faultAt,       \* the step whose fault entered the catch block ("none" if none)
    timedOut,      \* positions of the sites whose homepage navigation timed out
    popupProbe,    \* what the last popup detection observed
    productPage,   \* what the last findProductPages observed
    checkPage,     \* what the last check battery observed
    metricsPage,   \* what the last getPerformanceMetrics observed
    enteredWith,   \* the viewport of this.page when auditWebsite was called
    closeCalls,    \* how often close() of the browser this.browser holds was called
    waited,        \* the milliseconds main has waited between audits
    log            \* what the current audit has done to the page and the disk

runnerVars ==
    <<runner, websites, settings, mainPc, idx, results, exitCode, browser, enteredWith,
      closeCalls, waited>>
observed == <<popupProbe, productPage, checkPage, metricsPage>>
vars == <<runner, websites, settings, mainPc, idx, results, exitCode, browser, viewport,
          auditPc, auditData, auditErr, ret, productLinks, pi, faultAt, timedOut,
          popupProbe, productPage, checkPage, metricsPage, enteredWith, closeCalls, log,
          waited>>

\* ------------------------------------------------------------- websites
Urls == {"https://shop.example", "http://blog.example", "not a url"}

\* new URL(url) throws on a string that is not a URL.
IsValidUrl(url) == url # "not a url"

\* new URL(url).hostname.replace(/\./g, '_')
SiteNameOf(url) ==
    IF url = "https://shop.example" THEN "shop_example" ELSE "blog_example"

EmptyObject == [x \in {} |-> 0]
NoViewport == [width |-> 0, height |-> 0]
NoError == [message |-> ""]
NoProbe == [fault |-> "none", present |-> {}, matches |-> <<>>]
NoProductPage == [fault |-> FALSE, anchors |-> <<>>]
NoCheckPage ==
    [faultAt |-> 0, hasMetaDescription |-> TRUE, imagesWithoutAlt |-> 0, h1Count |-> 1,
     isHTTPS |-> TRUE, loadTime10 |-> 12000]

NoMetricsPage == [fault |-> "none", loadTime10 |-> 12000]

\* initialize: page.setDefaultNavigationTimeout(navigationTimeout || 30000)
DefaultNavigationTimeout(s) == OrDefault(s, "audit", "navigationTimeout", 30000)

\* The `timeout: 30000` that each of the three page.goto calls passes.
GotoTimeout == 30000

\* What bounds a navigation: the timeout option of page.goto where one is
\* given, the page's default otherwise.
NavigationBound(option, pageDefault) == IF option # 0 THEN option ELSE pageDefault

\* The message of puppeteer's TimeoutError for a navigation bounded by t ms.
TimeoutMessage(t) == "Navigation timeout of " \o ToString(t) \o " ms exceeded"

NavigationTimeout ==
    TimeoutMessage(NavigationBound(GotoTimeout, DefaultNavigationTimeout(settings)))

\* The state after `new WebsiteAuditor(settings)`, before main goes on.
InitWith(r, w, supplied, pc) ==
    /\ runner = r
    /\ websites = w
    /\ settings = GetSettings(supplied)
    /\ waited = 0
    /\ mainPc = pc
    /\ idx = 1
    /\ results = <<>>
    /\ exitCode = -1
    /\ browser = Null
    /\ viewport = NoViewport
    /\ auditPc = "idle"
    /\ exitCode = -1
    /\ auditData = EmptyObject
    /\ auditErr = NoError
    /\ ret = EmptyObject
    /\ productLinks = <<>>
    /\ pi = 0
    /\ faultAt = "none"
    /\ timedOut = {}
    /\ popupProbe = NoProbe
    /\ productPage = NoProductPage
    /\ checkPage = NoCheckPage
    /\ metricsPage = NoMetricsPage
    /\ enteredWith = NoViewport
    /\ closeCalls = 0
    /\ log = <<>>

Init ==
    \E r \in {"isolating", "halting"}, w \in SeqsUpTo(Urls, MaxSites) :
        InitWith(r, w, {}, "start")

\* ------------------------------------------------------------------ main
\* websites.length === 0: process.exit(1) before the auditor is built.
MainNoWebsites ==
    /\ mainPc = "start"
    /\ websites = <<>>
    /\ mainPc' = "exited"
    /\ exitCode' = 1
    /\ UNCHANGED <<runner, websites, settings, idx, results, browser, viewport,
                   auditPc, auditData, auditErr, ret, productLinks, pi, faultAt,
                   timedOut, observed, enteredWith, closeCalls, log, waited>>

\* The viewport puppeteer.launch gives the page: that of settings.browser, the
\* auditor's own default when settings has no browser section, and
\* puppeteer's 800x600 when the section names none.
LaunchViewport(s) ==
    IF "browser" \notin DOMAIN s THEN defaultViewport
    ELSE IF "defaultViewport" \in DOMAIN s.browser THEN s.browser.defaultViewport
    ELSE [width |-> 800, height |-> 600]

\* auditor.initialize(): puppeteer.launch rejects, or the browser is up and
\* a later step (newPage, setUserAgent) rejects, or the session is ready.
InitializeOutcomes == {"launchFails", "pageFails", "ready"}

Initialize(outcome) ==
    CASE outcome = "launchFails" -> UNCHANGED <<browser, viewport, closeCalls>>
      [] outcome = "pageFails" ->
            /\ browser' = "open"
            /\ closeCalls' = 0
            /\ UNCHANGED viewport
      [] outcome = "ready" ->
            /\ browser' = "open"
            /\ closeCalls' = 0
            /\ viewport' = LaunchViewport(settings)

\* await auditor.initialize() in the try block of main
MainInitialize ==
    /\ mainPc = "start"
    /\ websites # <<>>
    /\ \E outcome \in InitializeOutcomes :
          /\ Initialize(outcome)
          /\ mainPc' = IF outcome = "ready" THEN "loop" ELSE "catch"
    /\ UNCHANGED <<runner, websites, settings, idx, results, exitCode,
                   auditPc, auditData, auditErr, ret, productLinks, pi, faultAt,
                   timedOut, observed, enteredWith, log, waited>>

\* for (const url of websites): the call of auditWebsite(url)
MainCallAudit ==
    /\ mainPc = "loop"
    /\ idx <= Len(websites)
    /\ mainPc' = "awaitAudit"
    /\ auditPc' = "setViewport"
    /\ auditData' = EmptyObject
    /\ auditErr' = NoError
    /\ ret' = EmptyObject
    /\ productLinks' = <<>>
    /\ pi' = 0
    /\ faultAt' = "none"
    /\ enteredWith' = viewport
    /\ log' = <<>>
    /\ UNCHANGED <<runner, websites, settings, idx, results, exitCode, browser,
                   viewport, timedOut, observed, closeCalls, waited>>

\* `if (settings.audit.delayBetweenAudits > 0) await setTimeout(...)`: a
\* missing field reads undefined, and undefined > 0 is false.
DelayBetweenAudits(s) ==
    IF "delayBetweenAudits" \in DOMAIN s.audit /\ s.audit.delayBetweenAudits > 0
    THEN s.audit.delayBetweenAudits
    ELSE 0

\* auditWebsite returned: the record is kept and the delay between audits
\* passes.
MainAuditReturned ==
    /\ mainPc = "awaitAudit"
    /\ auditPc = "returned"
    /\ results' = Append(results, ret)
    /\ idx' = idx + 1
    /\ mainPc' = "loop"
    /\ auditPc' = "idle"
    /\ waited' = waited + DelayBetweenAudits(settings)
    /\ UNCHANGED <<runner, websites, settings, exitCode, browser, viewport,
                   auditData, auditErr, ret, productLinks, pi, faultAt, timedOut,
                   observed, enteredWith, closeCalls, log>>

\* auditWebsite threw: the isolating runner records the failure and goes on,
\* the halting runner leaves the loop for its outer catch.
MainAuditThrew ==
    /\ mainPc = "awaitAudit"
    /\ auditPc = "threw"
    /\ auditPc' = "idle"
    /\ IF runner = "isolating"
       THEN /\ results' = Append(results, [url |-> websites[idx],
                                           error |-> ret.message,
                                           success |-> FALSE])
            /\ idx' = idx + 1
            /\ mainPc' = "loop"
       ELSE /\ mainPc' = "catch"
            /\ UNCHANGED <<results, idx>>
    /\ UNCHANGED <<runner, websites, settings, exitCode, browser, viewport,
                   auditData, auditErr, ret, productLinks, pi, faultAt, timedOut,
                   observed, enteredWith, closeCalls, log, waited>>

\* The loop is over: the summary is printed and the try block ends.
MainSummary ==
    /\ mainPc = "loop"
    /\ idx > Len(websites)
    /\ mainPc' = "finally"
    /\ UNCHANGED <<runner, websites, settings, idx, results, exitCode, browser,
                   viewport, auditPc, auditData, auditErr, ret, productLinks, pi,
                   faultAt, timedOut, observed, enteredWith, closeCalls, log, waited>>

\* A faulty variant: the outer catch only logs, and main resolves.
MainCatchLogsOnly ==
    /\ mainPc = "catch"
    /\ mainPc' = "exited"
    /\ exitCode' = 0
    /\ UNCHANGED <<runner, websites, settings, idx, results, browser, viewport,
                   auditPc, auditData, auditErr, ret, productLinks, pi, faultAt,
                   timedOut, observed, enteredWith, closeCalls, log, waited>>

\* The outer catch: process.exit(1) ends the process at once.
MainCatch ==
    /\ mainPc = "catch"
    /\ mainPc' = "exited"
    /\ exitCode' = 1
    /\ UNCHANGED <<runner, websites, settings, idx, results, browser, viewport,
                   auditPc, auditData, auditErr, ret, productLinks, pi, faultAt,
                   timedOut, observed, enteredWith, closeCalls, log, waited>>

\* WebsiteAuditor.close: `if (this.browser) await this.browser.close()`.
\* this.browser is not cleared, so the test passes again on a later call.
Close(b) == IF b # Null THEN "closed" ELSE b

\* The calls of browser.close() after a close() that found n before it.
BrowserCloseCalls(b, n) == IF b # Null THEN n + 1 ELSE n

\* finally: auditor.close(), then main resolves and the process ends.
MainFinally ==
    /\ mainPc = "finally"
    /\ browser' = Close(browser)
    /\ closeCalls' = BrowserCloseCalls(browser, closeCalls)
    /\ mainPc' = "exited"
    /\ exitCode' = 0
    /\ UNCHANGED <<runner, websites, settings, idx, results, viewport,
                   auditPc, auditData, auditErr, ret, productLinks, pi, faultAt,
                   timedOut, observed, enteredWith, log, waited>>

\* A caller of the exported class other than main: it may call initialize()
\* and close() in any order, any number of times.
ClientInitialize ==
    /\ mainPc = "client"
    /\ \E outcome \in InitializeOutcomes : Initialize(outcome)
    /\ UNCHANGED <<runner, websites, settings, mainPc, idx, results, exitCode,
                   auditPc, auditData, auditErr, ret, productLinks, pi, faultAt,
                   timedOut, observed, enteredWith, log, waited>>

ClientClose ==
    /\ mainPc = "client"
    /\ closeCalls < MaxCloses
    /\ browser' = Close(browser)
    /\ closeCalls' = BrowserCloseCalls(browser, closeCalls)
    /\ UNCHANGED <<runner, websites, settings, mainPc, idx, results, exitCode, viewport,
                   auditPc, auditData, auditErr, ret, productLinks, pi, faultAt,
                   timedOut, observed, enteredWith, log, waited>>

\* process.on('SIGINT', ...): the handler, registered when the module loads,
\* logs and calls process.exit(0).  The process ends where it stands: no
\* awaited call resumes, neither catch nor finally runs.
Sigint ==
    /\ exitCode = -1
    /\ mainPc' = "interrupted"
    /\ exitCode' = 0
    /\ UNCHANGED <<runner, websites, settings, idx, results, browser, viewport,
                   auditPc, auditData, auditErr, ret, productLinks, pi, faultAt,
                   timedOut, observed, enteredWith, closeCalls, log, waited>>

\* ---------------------------------------------------------- auditWebsite
\* (every step of auditWebsite needs a live process: exitCode = -1)
auditOnly == <<auditData, ret, productLinks, pi>>

\* A fault inside the try block: control passes to the catch block.
Raise(step, message) ==
    /\ auditPc' = "catch"
    /\ auditErr' = [message |-> message]
    /\ faultAt' = step

Goes(next) ==
    /\ auditPc' = next
    /\ UNCHANGED <<auditErr, faultAt>>

\* What an awaited call did to the page or to the disk, in program order.
Does(effect) == log' = Append(log, effect)

\* A faulty variant: the audit starts with the viewport it finds.
AuditKeepsViewport ==
    /\ auditPc = "setViewport"
    /\ exitCode = -1
    /\ Goes("mkTemp")
    /\ UNCHANGED <<runnerVars, viewport, auditOnly, timedOut, observed, log>>

\* await this.page.setViewport(this.defaultViewport)
AuditSetViewport ==
    /\ auditPc = "setViewport"
    /\ exitCode = -1
    /\ \/ /\ viewport' = defaultViewport
          /\ Does("setViewport desktop")
          /\ Goes("mkTemp")
       \/ /\ Raise("setViewport", "Session closed")
          /\ UNCHANGED <<viewport, log>>
    /\ UNCHANGED <<runnerVars, auditOnly, timedOut, observed>>

\* `./audits/${popupFolder}/${siteName}_${timestamp}`
FinalOutputDir(popupFolder, siteName, timestamp) ==
    "./audits/" \o popupFolder \o "/" \o siteName \o "_" \o ToString(timestamp)

\* The auditData literal; Date.now() is modelled by the position of the site.
NewAuditData(url, timestamp) ==
    [url |-> url,
     siteName |-> SiteNameOf(url),
     timestamp |-> timestamp,
     pages |-> <<>>,
     metrics |-> EmptyObject,
     issues |-> <<>>,
     popups |-> Null,
     classification |-> Null]

\* A faulty variant: the classified directory is made together with the
\* temporary one, before the popups are known.
AuditMakeTempEager ==
    /\ auditPc = "mkTemp"
    /\ exitCode = -1
    /\ IF ~IsValidUrl(websites[idx])
       THEN /\ Raise("newURL", "Invalid URL")
            /\ UNCHANGED <<auditData, log>>
       ELSE \/ /\ auditData' = NewAuditData(websites[idx], idx)
               /\ log' = log \o <<"mkdir temp", "mkdir final">>
               /\ Goes("gotoHome")
            \/ /\ Raise("mkdirTemp", "EACCES: permission denied, mkdir")
               /\ UNCHANGED <<auditData, log>>
    /\ UNCHANGED <<runnerVars, viewport, ret, productLinks, pi, timedOut, observed>>

\* new URL(url), the mkdir of the temporary directory, the auditData literal
AuditMakeTemp ==
    /\ auditPc = "mkTemp"
    /\ exitCode = -1
    /\ IF ~IsValidUrl(websites[idx])
       THEN /\ Raise("newURL", "Invalid URL")
            /\ UNCHANGED <<auditData, log>>
       ELSE \/ /\ auditData' = NewAuditData(websites[idx], idx)
               /\ Does("mkdir temp")
               /\ Goes("gotoHome")
            \/ /\ Raise("mkdirTemp", "EACCES: permission denied, mkdir")
               /\ UNCHANGED <<auditData, log>>
    /\ UNCHANGED <<runnerVars, viewport, ret, productLinks, pi, timedOut, observed>>

\* await this.page.goto(url, ...): the homepage loads, times out or is
\* unreachable
AuditGotoHome ==
    /\ auditPc = "gotoHome"
    /\ exitCode = -1
    /\ Does("goto home")
    /\ \/ /\ Goes("detectShopify")
          /\ UNCHANGED timedOut
       \/ /\ Raise("gotoHome", NavigationTimeout)
          /\ timedOut' = timedOut \cup {idx}
       \/ /\ Raise("gotoHome", "net::ERR_NAME_NOT_RESOLVED")
          /\ UNCHANGED timedOut
    /\ UNCHANGED <<runnerVars, viewport, auditOnly, observed>>

\* detectShopify: some indicator fires or none does; a fault counts as none.
AuditDetectShopify(answers) ==
    /\ auditPc = "detectShopify"
    /\ exitCode = -1
    /\ \E isShopify \in answers :
          auditData' = [f \in DOMAIN auditData \cup {"isShopify"} |->
                            IF f = "isShopify" THEN isShopify ELSE auditData[f]]
    /\ Does("detectShopify")
    /\ Goes("detectPopups")
    /\ UNCHANGED <<runnerVars, viewport, ret, productLinks, pi, timedOut, observed>>

\* const popupData = await this.detectPopupsAndEmailPlatforms()
AuditDetectPopups(probes) ==
    /\ auditPc = "detectPopups"
    /\ exitCode = -1
    /\ \E probe \in probes :
          LET r == DetectPopupsAndEmailPlatforms(probe)
          IN  /\ popupProbe' = probe
              /\ IF r.raised
                 THEN /\ Raise("detectPopups", "popup detection raised")
                      /\ UNCHANGED auditData
                 ELSE /\ auditData' = [auditData EXCEPT !.popups = r.value]
                      /\ Goes("mkFinal")
    /\ Does("detectPopups")
    /\ UNCHANGED <<runnerVars, viewport, ret, productLinks, pi, timedOut,
                   productPage, checkPage, metricsPage>>

\* A faulty variant: every site filed under no_popup.
PopupFolderConstant(hasPopup) == "no_popup"

\* popupData.hasPopup ? 'popup_detected' : 'no_popup'
PopupFolder(hasPopup) == IF hasPopup THEN "popup_detected" ELSE "no_popup"

\* The mkdir of the final directory, then classification and outputDirectory
AuditMakeFinal ==
    /\ auditPc = "mkFinal"
    /\ exitCode = -1
    /\ \/ LET popupFolder == PopupFolder(auditData.popups.hasPopup)
              finalOutputDir == FinalOutputDir(popupFolder, auditData.siteName,
                                               auditData.timestamp)
          IN  /\ auditData' =
                    [f \in DOMAIN auditData \cup {"outputDirectory"} |->
                        CASE f = "classification" -> popupFolder
                          [] f = "outputDirectory" -> finalOutputDir
                          [] OTHER -> auditData[f]]
              /\ Does("mkdir final")
              /\ Goes("captureHome")
       \/ /\ Raise("mkdirFinal", "EACCES: permission denied, mkdir")
          /\ UNCHANGED <<auditData, log>>
    /\ UNCHANGED <<runnerVars, viewport, ret, productLinks, pi, timedOut, observed>>

\* What the document of a page answers to the page-info probe; a missing
\* meta description or h1 is "null".
Document == [title |-> "Shop", metaDescription |-> Null, h1 |-> "Welcome"]

\* The pageInfo literal of capturePage (url and loadTime left out):
\* `?.content || ''` and `?.textContent || ''`.
PageInfo(doc) ==
    [title |-> doc.title,
     description |-> IF doc.metaDescription = Null THEN "" ELSE doc.metaDescription,
     h1 |-> IF doc.h1 = Null THEN "" ELSE doc.h1]

\* The record capturePage returns: {name, screenshot, ...pageInfo}
PageCapture(pageName, outputDir) ==
    LET pageInfo == PageInfo(Document)
    IN  [name |-> pageName,
         screenshot |-> outputDir \o "/" \o pageName \o ".png",
         title |-> pageInfo.title,
         description |-> pageInfo.description,
         h1 |-> pageInfo.h1]

\* A capturePage call inside auditWebsite.  Nothing in capturePage catches:
\* the capture is pushed to pages, or page.screenshot rejects before the
\* file is written, or the file is written and the page-info probe rejects.
Capture(step, pageName, next) ==
    \/ /\ auditData' = [auditData EXCEPT
                          !.pages = Append(@, PageCapture(pageName, auditData.outputDirectory))]
       /\ Does("screenshot " \o pageName)
       /\ Goes(next)
    \/ /\ Raise(step \o ".screenshot", "screenshot failed")
       /\ UNCHANGED <<auditData, log>>
    \/ /\ Raise(step \o ".pageInfo", "Execution context was destroyed")
       /\ Does("screenshot " \o pageName)
       /\ UNCHANGED auditData

AuditCaptureHome ==
    /\ auditPc = "captureHome"
    /\ exitCode = -1
    /\ Capture("captureHome", "homepage_desktop", "metrics")
    /\ UNCHANGED <<runnerVars, viewport, ret, productLinks, pi, timedOut, observed>>

\* page = [fault, loadTime10]: what the page answers to the performance
\* probe.  fault is "none" (the navigation entry has load time loadTime10)
\* or "noNavigation" (no navigation entry: reading loadEventEnd of undefined
\* rejects the evaluation).
\* A faulty variant without the try/catch: the rejection leaves the function.
GetPerformanceMetricsUnguarded(page) ==
    IF page.fault = "none"
    THEN [raised |-> FALSE, value |-> [loadTime |-> Round(page.loadTime10)]]
    ELSE [raised |-> TRUE, value |-> EmptyObject]

\* getPerformanceMetrics: the snapshot (loadTime of it), {} from the catch.
GetPerformanceMetrics(page) ==
    IF page.fault = "none"
    THEN [raised |-> FALSE, value |-> [loadTime |-> Round(page.loadTime10)]]
    ELSE [raised |-> FALSE, value |-> EmptyObject]

\* auditData.metrics.performance = await this.getPerformanceMetrics()
AuditMetrics(pages) ==
    /\ auditPc = "metrics"
    /\ exitCode = -1
    /\ \E page \in pages :
          LET r == GetPerformanceMetrics(page)
          IN  /\ metricsPage' = page
              /\ IF r.raised
                 THEN /\ Raise("metrics", "Cannot read properties of undefined")
                      /\ UNCHANGED auditData
                 ELSE /\ auditData' = [auditData EXCEPT
                                         !.metrics = [performance |-> r.value]]
                      /\ Goes("ecommerce")
    /\ UNCHANGED <<runnerVars, viewport, ret, productLinks, pi, timedOut,
                   popupProbe, productPage, checkPage, log>>

\* if (isShopify || await this.detectEcommerce())
AuditEcommerce(answers) ==
    /\ auditPc = "ecommerce"
    /\ exitCode = -1
    /\ \E detectEcommerce \in answers :
          IF auditData.isShopify \/ detectEcommerce
          THEN Goes("findProducts")
          ELSE Goes("setMobile")
    /\ UNCHANGED <<runnerVars, viewport, auditOnly, timedOut, observed, log>>

\* const productLinks = await this.findProductPages()
AuditFindProducts(pages) ==
    /\ auditPc = "findProducts"
    /\ exitCode = -1
    /\ \E page \in pages :
          /\ productPage' = page
          /\ productLinks' = FindProductPages(settings, page)
    /\ pi' = 0
    /\ Goes("productLoop")
    /\ UNCHANGED <<runnerVars, viewport, auditData, ret, timedOut, popupProbe, checkPage,
                   metricsPage, log>>

\* The loop test and the goto of the product page
AuditProductGoto ==
    /\ auditPc = "productLoop"
    /\ exitCode = -1
    /\ IF pi < ProductLoopBound(productLinks)
       THEN /\ Does("goto product")
            /\ \/ Goes("productCapture")
               \/ Raise("productGoto", NavigationTimeout)
       ELSE /\ Goes("setMobile")
            /\ UNCHANGED log
    /\ UNCHANGED <<runnerVars, viewport, auditOnly, timedOut, observed>>

ProductName(i) == "product_" \o ToString(i + 1) \o "_desktop"

AuditProductCapture ==
    /\ auditPc = "productCapture"
    /\ exitCode = -1
    /\ Capture("productCapture", ProductName(pi), "productLoop")
    /\ pi' = IF auditPc' = "productLoop" THEN pi + 1 ELSE pi
    /\ UNCHANGED <<runnerVars, viewport, ret, productLinks, timedOut, observed>>

\* await this.page.setViewport(this.mobileViewport)
AuditSetMobile ==
    /\ auditPc = "setMobile"
    /\ exitCode = -1
    /\ \/ /\ viewport' = mobileViewport
          /\ Does("setViewport mobile")
          /\ Goes("gotoMobile")
       \/ /\ Raise("setMobile", "Session closed")
          /\ UNCHANGED <<viewport, log>>
    /\ UNCHANGED <<runnerVars, auditOnly, timedOut, observed>>

AuditGotoMobile ==
    /\ auditPc = "gotoMobile"
    /\ exitCode = -1
    /\ Does("goto mobile")
    /\ \/ Goes("captureMobile")
       \/ Raise("gotoMobile", NavigationTimeout)
    /\ UNCHANGED <<runnerVars, viewport, auditOnly, timedOut, observed>>

AuditCaptureMobile ==
    /\ auditPc = "captureMobile"
    /\ exitCode = -1
    /\ Capture("captureMobile", "homepage_mobile", "resetViewport")
    /\ UNCHANGED <<runnerVars, viewport, ret, productLinks, pi, timedOut, observed>>

\* "Reset to desktop view for next audit"
AuditResetViewport ==
    /\ auditPc = "resetViewport"
    /\ exitCode = -1
    /\ \/ /\ viewport' = defaultViewport
          /\ Does("setViewport desktop")
          /\ Goes("checks")
       \/ /\ Raise("resetViewport", "Session closed")
          /\ UNCHANGED <<viewport, log>>
    /\ UNCHANGED <<runnerVars, auditOnly, timedOut, observed>>

\* auditData.issues = await this.runAutomatedChecks()
AuditRunChecks(pages) ==
    /\ auditPc = "checks"
    /\ exitCode = -1
    /\ \E page \in pages :
          /\ checkPage' = page
          /\ auditData' = [auditData EXCEPT !.issues = RunAutomatedChecks(settings, page)]
    /\ Goes("report")
    /\ UNCHANGED <<runnerVars, viewport, ret, productLinks, pi, timedOut,
                   popupProbe, productPage, metricsPage, log>>

\* generateReport: the two writeFile calls succeed or one of them faults
AuditReport ==
    /\ auditPc = "report"
    /\ exitCode = -1
    /\ \/ Goes("cleanup")
       \/ Raise("report", "ENOSPC: no space left on device, write")
    /\ UNCHANGED <<runnerVars, viewport, auditOnly, timedOut, observed, log>>

\* The guarded rmdir of the temporary directory (empty: every file of the
\* audit goes to the classified directory), then `return auditData`
AuditReturn ==
    /\ auditPc = "cleanup"
    /\ exitCode = -1
    /\ Does("rmdir temp")
    /\ ret' = auditData
    /\ Goes("returned")
    /\ UNCHANGED <<runnerVars, viewport, auditData, productLinks, pi, timedOut, observed>>

\* The catch block.  tempOutputDir and siteName are declared with const
\* inside the try block and are out of scope here: the guarded rmdir raises a
\* ReferenceError that its own try swallows, and evaluating the returned
\* literal raises "siteName is not defined", which leaves auditWebsite.
AuditCatch ==
    /\ auditPc = "catch"
    /\ exitCode = -1
    /\ auditPc' = "threw"
    /\ ret' = [message |-> "siteName is not defined"]
    /\ UNCHANGED <<runnerVars, viewport, auditData, auditErr, productLinks, pi,
                   faultAt, timedOut, observed, log>>

\* ------------------------------------------------------ specifications
\* What the pages of a batch show: a page without overlays and one with a
\* visible email-and-discount overlay, one product anchor, a clean battery.
EmailDiscountOverlay ==
    [selector |-> "[class*=\"popup\"]",
     box |-> [width |-> 300, height |-> 200, display |-> "block", visibility |-> "visible"],
     hasEmailInput |-> TRUE,
     text |-> [len |-> 11, words |-> {Occ("%", 6, FALSE), Occ("off", 8, FALSE)}]]

BatchProbes ==
    {NoProbe, [fault |-> "none", present |-> {"Klaviyo"}, matches |-> <<EmailDiscountOverlay>>]}

BatchProductPages ==
    {[fault |-> FALSE, anchors |-> <<Href("https:", "/products/", "a", FALSE)>>]}

BatchMetricsPages == [fault : {"none", "noNavigation"}, loadTime10 : {12000}]

\* The steps of auditWebsite that do not read the page's content.
AuditPlainStep ==
    \/ AuditSetViewport
    \/ AuditMakeTemp
    \/ AuditGotoHome
    \/ AuditMakeFinal
    \/ AuditCaptureHome
    \/ AuditProductGoto
    \/ AuditProductCapture
    \/ AuditSetMobile
    \/ AuditGotoMobile
    \/ AuditCaptureMobile
    \/ AuditResetViewport
    \/ AuditReport
    \/ AuditReturn
    \/ AuditCatch

MainStep ==
    \/ MainNoWebsites
    \/ MainInitialize
    \/ MainCallAudit
    \/ MainAuditReturned
    \/ MainAuditThrew
    \/ MainSummary
    \/ MainCatch
    \/ MainFinally

\* A whole batch, from the start of main to the end of the process.
Next ==
    \/ MainStep
    \/ Sigint
    \/ AuditPlainStep
    \/ AuditDetectShopify(BOOLEAN)
    \/ AuditDetectPopups(BatchProbes)
    \/ AuditMetrics(BatchMetricsPages)
    \/ AuditEcommerce({FALSE})
    \/ AuditFindProducts(BatchProductPages)
    \/ AuditRunChecks({NoCheckPage})

Spec == Init /\ [][Next]_vars

\* One session in the hands of a client, under every local.json.
InitSession ==
    \E supplied \in SUBSET Options : InitWith("client", <<>>, supplied, "client")

NextSession ==
    \/ ClientInitialize
    \/ ClientClose

SpecSession == InitSession /\ [][NextSession]_vars

\* A batch of at most one site, under every local.json.
InitConfigured ==
    \E r \in {"isolating", "halting"}, w \in {<<>>, <<"https://shop.example">>},
       supplied \in SUBSET Options :
        InitWith(r, w, supplied, "start")

SpecConfigured == InitConfigured /\ [][Next]_vars

\* An audit in flight: the only site of an isolating batch, at step pc.
MidAudit(s, pc, data, vp, done, measured) ==
    /\ runner = "isolating"
    /\ websites = <<"https://shop.example">>
    /\ settings = s
    /\ mainPc = "awaitAudit"
    /\ idx = 1
    /\ results = <<>>
    /\ exitCode = -1
    /\ browser = "open"
    /\ viewport = vp
    /\ auditPc = pc
    /\ auditData = data
    /\ auditErr = NoError
    /\ ret = EmptyObject
    /\ productLinks = <<>>
    /\ pi = 0
    /\ faultAt = "none"
    /\ timedOut = {}
    /\ popupProbe = NoProbe
    /\ productPage = NoProductPage
    /\ checkPage = NoCheckPage
    /\ metricsPage = measured
    /\ enteredWith = defaultViewport
    /\ closeCalls = 0
    /\ waited = 0
    /\ log = done

\* auditData once the homepage is loaded and detectShopify has answered.
NavigatedData(isShopify) ==
    [url |-> "https://shop.example", siteName |-> "shop_example", timestamp |-> 1,
     pages |-> <<>>, metrics |-> EmptyObject, issues |-> <<>>, popups |-> Null,
     classification |-> Null, isShopify |-> isShopify]

\* Popup detection and classification of one homepage, over all probes.
NavigatedLog == <<"setViewport desktop", "mkdir temp", "goto home", "detectShopify">>

InitDetect ==
    MidAudit(defaultSettings, "detectPopups", NavigatedData(FALSE), defaultViewport,
             NavigatedLog, NoMetricsPage)

NextDetect ==
    \/ AuditDetectPopups(Probes)
    \/ AuditMakeFinal

SpecDetect == InitDetect /\ [][NextDetect]_vars

\* auditData once the desktop homepage is captured and measured, for a
\* homepage without popups.
HomeCapturedData ==
    [url |-> "https://shop.example", siteName |-> "shop_example", timestamp |-> 1,
     pages |-> <<PageCapture("homepage_desktop",
                             FinalOutputDir("no_popup", "shop_example", 1))>>,
     metrics |-> [performance |-> [loadTime |-> 1200]],
     issues |-> <<>>,
     popups |-> DefaultPopupData,
     classification |-> "no_popup",
     isShopify |-> TRUE,
     outputDirectory |-> FinalOutputDir("no_popup", "shop_example", 1)]

HomeCapturedLog ==
    NavigatedLog \o <<"detectPopups", "mkdir final", "screenshot homepage_desktop">>

\* The homepages the product scan may see, and the configured page limits.
ProductPages == [fault : BOOLEAN, anchors : SeqsUpTo(Hrefs, MaxAnchors)]

ProductSettings ==
    {[defaultSettings EXCEPT !.audit.maxProductPages = n] : n \in {1, 2, 3, 5}}

\* The product branch of one audit and the rest of that audit, over all
\* homepages and page limits.
InitProducts ==
    \E s \in ProductSettings :
        MidAudit(s, "findProducts", HomeCapturedData, defaultViewport, HomeCapturedLog,
                 NoMetricsPage)

NextProducts ==
    \/ AuditFindProducts(ProductPages)
    \/ AuditProductGoto
    \/ AuditProductCapture
    \/ AuditSetMobile
    \/ AuditGotoMobile
    \/ AuditCaptureMobile
    \/ AuditResetViewport
    \/ AuditRunChecks({NoCheckPage})
    \/ AuditReport
    \/ AuditReturn
    \/ AuditCatch

SpecProducts == InitProducts /\ [][NextProducts]_vars

\* auditData once the mobile homepage is captured and the viewport restored.
MobileCapturedData(measured) ==
    [HomeCapturedData EXCEPT
        !.pages = Append(@, PageCapture("homepage_mobile",
                                        FinalOutputDir("no_popup", "shop_example", 1))),
        !.metrics = [performance |-> GetPerformanceMetrics(measured).value]]

\* What the performance probe may have met on the desktop homepage.
MetricsPages ==
    { [fault |-> "none", loadTime10 |-> 12000],
      [fault |-> "none", loadTime10 |-> 45000],
      [fault |-> "noNavigation", loadTime10 |-> 12000] }

\* The check battery of one audit and the end of that audit, over all pages.
MobileCapturedLog ==
    HomeCapturedLog \o <<"setViewport mobile", "goto mobile", "screenshot homepage_mobile",
                         "setViewport desktop">>

InitChecks ==
    \E measured \in MetricsPages :
        MidAudit(defaultSettings, "checks", MobileCapturedData(measured), defaultViewport,
                 MobileCapturedLog, measured)

NextChecks ==
    \/ AuditRunChecks(CheckPages)
    \/ AuditReport
    \/ AuditReturn
    \/ AuditCatch

SpecChecks == InitChecks /\ [][NextChecks]_vars

\* ================================================================ claims
\* The session is ready: initialize has given the page its viewport.
SessionReady == viewport # NoViewport

BatchEnded == mainPc = "exited"

AuditEnded == auditPc \in {"returned", "threw"}

\* C1: auditWebsite never lets an exception escape: whatever step faults,
\* the call returns a record to the batch runner instead of throwing.
C1_AuditNeverThrows == auditPc # "threw"

\* C2: once the session is ready, a batch that has ended has produced
\* exactly one record per input site, the i-th for the i-th url.
C2_OneRecordPerSite ==
    (BatchEnded /\ SessionReady) =>
        /\ Len(results) = Len(websites)
        /\ \A i \in DOMAIN results : results[i].url = websites[i]

IsFailureRecord(r) ==
    /\ "success" \in DOMAIN r
    /\ r.success = FALSE
    /\ "error" \in DOMAIN r
    /\ r.error # ""

\* C3: a site whose homepage navigation timed out has, when the batch has
\* ended, exactly one record, a failure with a non-empty error, and every
\* later site has been audited too.
C3_TimeoutIsolated ==
    BatchEnded =>
        \A i \in timedOut :
            /\ Len(results) = Len(websites)
            /\ IsFailureRecord(results[i])

\* C4: when an audit ends, whatever its outcome, the viewport of the shared
\* session is the desktop default.
C4_ViewportRestored == AuditEnded => viewport = defaultViewport

\* C5: a failed navigation to a product-page candidate is skipped: it is
\* never the fault that aborts the site's audit.
C5_ProductFailureSkipped ==
    faultAt = "productGoto" => auditPc \notin {"catch", "threw"}

IsProductCapture(page) == page.name \notin {"homepage_desktop", "homepage_mobile"}

ProductCaptures(record) ==
    Cardinality({i \in DOMAIN record.pages : IsProductCapture(record.pages[i])})

DistinctProductHrefs(anchors) ==
    {anchors[i] : i \in {j \in DOMAIN anchors : IsProductHref(anchors[j])}}

\* C6: a successful audit whose product scan answered has captured
\* min(number of distinct matching URLs, maxProductPages) product pages.
C6_ProductCaptureCount ==
    (auditPc = "returned" /\ ~productPage.fault) =>
        ProductCaptures(ret) =
            Min(Cardinality(DistinctProductHrefs(productPage.anchors)),
                settings.audit.maxProductPages)

CarriesClassification(r) ==
    "classification" \in DOMAIN r /\ r.classification # Null

ClassificationMatches(r) ==
    CarriesClassification(r) =>
        /\ r.classification \in {"popup_detected", "no_popup"}
        /\ r.classification = "popup_detected" <=> r.popups.hasPopup
        /\ r.classification = "no_popup" <=> ~r.popups.hasPopup

\* C7: in every audit record that carries a classification, returned or
\* under assembly, the classification is popup_detected if and only if
\* popups.hasPopup is true and no_popup if and only if it is false.
C7_ClassificationFollowsHasPopup ==
    /\ ClassificationMatches(auditData)
    /\ \A i \in DOMAIN results : ClassificationMatches(results[i])

C7_Witness ==
    \E i \in DOMAIN results :
        /\ CarriesClassification(results[i])
        /\ results[i].classification = "popup_detected"
        /\ results[i].popups.hasPopup

\* Popup detection has returned its finding into auditData.
PopupsDetected ==
    \/ auditPc \in {"mkFinal", "captureHome"}
    \/ auditPc = "catch" /\ faultAt = "mkdirFinal"

\* The matched overlays of a scan: the elements that are visible, carry an
\* email input or a subscription word, and have more than 10 characters.
Lower(words) == {o.w : o \in words}

MatchedOverlays(matches) ==
    {i \in DOMAIN matches :
        /\ matches[i].box.width > 0 /\ matches[i].box.height > 0
        /\ matches[i].box.display # "none" /\ matches[i].box.visibility # "hidden"
        /\ matches[i].text.len > 10
        /\ \/ matches[i].hasEmailInput
           \/ Lower(matches[i].text.words) \cap
                {"subscribe", "newsletter", "email", "discount", "offer", "save"} # {}}

\* An overlay's text is discount-indicating: discount, save, % or off occurs
\* within its first 200 characters, in any case.
DiscountIndicating(el) ==
    \E o \in el.text.words :
        \/ o.w \in {"discount", "save", "%", "off"} /\ o.at + WordLen(o.w) <= 200
        \/ o.w = "offer" /\ o.at + 3 <= 200

\* The rule as claimed: Email + Discount needs one overlay with both signals.
ClaimedPopupType(matches) ==
    LET M == MatchedOverlays(matches)
    IN  IF M = {} THEN Null
        ELSE IF \E i \in M : matches[i].hasEmailInput /\ DiscountIndicating(matches[i])
             THEN "Email + Discount"
        ELSE IF \E i \in M : matches[i].hasEmailInput THEN "Email Signup"
        ELSE IF \E i \in M : DiscountIndicating(matches[i]) THEN "Discount Offer"
        ELSE "General Popup"

\* The rule as amended: the two signals may come from different overlays.
AmendedPopupType(matches) ==
    LET M == MatchedOverlays(matches)
    IN  IF M = {} THEN Null
        ELSE IF (\E i \in M : matches[i].hasEmailInput)
                /\ (\E j \in M : DiscountIndicating(matches[j]))
             THEN "Email + Discount"
        ELSE IF \E i \in M : matches[i].hasEmailInput THEN "Email Signup"
        ELSE IF \E i \in M : DiscountIndicating(matches[i]) THEN "Discount Offer"
        ELSE "General Popup"

\* C8 as claimed: popupType is 'Email + Discount' if some single matched
\* overlay has both an email input and discount-indicating text, otherwise
\* Email Signup, Discount Offer, General Popup in that order, and none only
\* if no overlay matched.
C8_TypeBySingleOverlay ==
    (PopupsDetected /\ popupProbe.fault = "none") =>
        auditData.popups.popupType = ClaimedPopupType(popupProbe.matches)

\* C8 as amended: popupType is 'Email + Discount' if some matched overlay
\* has an email input and some matched overlay, the same or another, has
\* discount-indicating text; otherwise Email Signup if one has an email
\* input; otherwise Discount Offer if one has discount-indicating text;
\* otherwise General Popup; and none exactly if no overlay matched.
C8_TypeAcrossOverlays ==
    (PopupsDetected /\ popupProbe.fault = "none") =>
        auditData.popups.popupType = AmendedPopupType(popupProbe.matches)

C8_Witness ==
    /\ PopupsDetected
    /\ popupProbe.fault = "none"
    /\ Cardinality(MatchedOverlays(popupProbe.matches)) = 2
    /\ \E i, j \in MatchedOverlays(popupProbe.matches) :
          /\ popupProbe.matches[i].hasEmailInput
          /\ ~DiscountIndicating(popupProbe.matches[i])
          /\ ~popupProbe.matches[j].hasEmailInput
          /\ DiscountIndicating(popupProbe.matches[j])
    /\ auditData.popups.popupType = "Email + Discount"

\* C9 as claimed: popup detection never raises, and whenever one of its
\* steps faults the finding is the default one.
C9_FaultGivesDefault ==
    /\ faultAt # "detectPopups"
    /\ (PopupsDetected /\ popupProbe.fault # "none") =>
          auditData.popups = DefaultPopupData

\* C9 as amended: popup detection never raises; a fault of the settle wait
\* or of the email-platform scan gives the default finding; a fault of the
\* overlay scan gives hasPopup false, popupType none and empty popupDetails,
\* with the email platforms the earlier scan found kept.
C9_FaultKeepsPlatforms ==
    /\ faultAt # "detectPopups"
    /\ (PopupsDetected /\ popupProbe.fault \in {"settle", "platforms"}) =>
          auditData.popups = DefaultPopupData
    /\ (PopupsDetected /\ popupProbe.fault = "overlays") =>
          LET found == auditData.popups.emailPlatformDetails
          IN  /\ ~auditData.popups.hasPopup
              /\ auditData.popups.popupType = Null
              /\ auditData.popups.popupDetails = <<>>
              /\ {found[i] : i \in DOMAIN found} = popupProbe.present
              /\ Len(found) = Cardinality(popupProbe.present)
              /\ auditData.popups.emailPlatform =
                    IF popupProbe.present = {} THEN Null ELSE found[1]

C9_Witness ==
    /\ auditPc = "mkFinal"
    /\ popupProbe.fault = "overlays"
    /\ popupProbe.present # {}
    /\ popupProbe.matches # <<>>
    /\ auditData.popups.emailPlatform # Null

\* The check battery has returned its issues into auditData.
ChecksRun == auditPc \in {"report", "cleanup", "returned"}

CheckFires(j, page) ==
    CASE j = 1 -> ~page.hasMetaDescription
      [] j = 2 -> page.imagesWithoutAlt > 0
      [] j = 3 -> page.h1Count # 1
      [] j = 4 -> ~page.isHTTPS
      [] j = 5 -> page.loadTime10 > 30000

\* The issue check j reports on the page when it fires.
ReportsIssue(j, issue, page) ==
    CASE j = 1 -> issue.type = "SEO" /\ issue.issue = "Missing meta description"
      [] j = 2 -> issue.type = "Accessibility"
      [] j = 3 -> issue.type = "SEO" /\ issue.issue \in {"No H1 tag found", "Multiple H1 tags found"}
      [] j = 4 -> issue.type = "Security"
      [] j = 5 -> issue.type = "Performance"

Reported(j, issues, page) == \E i \in DOMAIN issues : ReportsIssue(j, issues[i], page)

ErrorIssues(issues) == {i \in DOMAIN issues : issues[i].type = "Error"}

ForFailedSite(r) == "error" \in DOMAIN r

\* C11: every record produced for a failed site has success = false and
\* carries exactly url, siteName, timestamp and an error description (with
\* the success flag), and has no pages, metrics or issues.
C11_FailureRecordShape ==
    \A i \in DOMAIN results :
        ForFailedSite(results[i]) =>
            /\ DOMAIN results[i] = {"url", "siteName", "timestamp", "error", "success"}
            /\ results[i].success = FALSE

\* The process was ended by its SIGINT handler.
Interrupted == mainPc = "interrupted"

\* An audit stands between two of its steps: called and not yet finished.
AuditInFlight == auditPc \notin {"idle", "returned", "threw"}

\* C12: a SIGINT that arrives while an audit is in flight does not abort
\* that audit: the process ends only once the current site's audit has
\* finished or failed, and no further site is started.
C12_SigintSparesInFlightAudit == Interrupted => ~AuditInFlight

\* The screenshots an audit can write.
ScreenshotEffects ==
    {"screenshot homepage_desktop", "screenshot product_1_desktop",
     "screenshot product_2_desktop", "screenshot product_3_desktop",
     "screenshot homepage_mobile"}

\* Effect e of the current audit at position i came after an effect `before`.
Preceded(i, before) == \E j \in 1..(i - 1) : log[j] = before

\* C13: within one audit the homepage navigation comes first, then the
\* platform detection, then the popup detection (once only), then the
\* creation of the classified output directory, then the first capture; no
\* screenshot is written and no classified directory is made before the
\* popup detection has returned.
C13_StepOrder ==
    /\ Cardinality({i \in DOMAIN log : log[i] = "detectPopups"}) <= 1
    /\ \A i \in DOMAIN log :
          /\ log[i] = "detectShopify" => Preceded(i, "goto home")
          /\ log[i] = "detectPopups" => Preceded(i, "detectShopify")
          /\ log[i] = "mkdir final" => Preceded(i, "detectPopups")
          /\ log[i] \in ScreenshotEffects =>
                Preceded(i, "mkdir final") /\ Preceded(i, "detectPopups")

\* An audit has captured its desktop homepage, hence gone through the five
\* steps.
C13_Witness ==
    /\ auditPc = "metrics"
    /\ log = <<"setViewport desktop", "mkdir temp", "goto home", "detectShopify",
               "detectPopups", "mkdir final", "screenshot homepage_desktop">>

PageNames(record) == [i \in DOMAIN record.pages |-> record.pages[i].name]

\* C14: the pages of every successful audit record are, in order,
\* homepage_desktop, then product_1_desktop .. product_k_desktop with
\* 0 <= k <= 3 numbered consecutively, then homepage_mobile: between 2 and 5
\* entries, the first the desktop homepage and the last the mobile one.
C14_PagesSequence ==
    auditPc = "returned" =>
        LET names == PageNames(ret)
            n == Len(names)
        IN  /\ n \in 2..5
            /\ names[1] = "homepage_desktop"
            /\ names[n] = "homepage_mobile"
            /\ \A i \in 2..(n - 1) :
                  names[i] = "product_" \o ToString(i - 1) \o "_desktop"

\* A successful audit of a homepage with four distinct product links, all
\* four found: three are captured.
C14_Witness ==
    /\ auditPc = "returned"
    /\ Len(productLinks) = 4
    /\ PageNames(ret) = <<"homepage_desktop", "product_1_desktop", "product_2_desktop",
                          "product_3_desktop", "homepage_mobile">>

\* The page-info probe of a capturePage call rejected.
PageInfoFaults ==
    {"captureHome.pageInfo", "productCapture.pageInfo", "captureMobile.pageInfo"}

\* C15: a failure of the metadata extraction probe of capturePage does not
\* abort the audit (the capture is returned with empty metadata fields);
\* only a screenshot failure propagates.
C15_PageInfoFaultTolerated == faultAt \notin PageInfoFaults

\* The position in `matches` of the k-th element that qualifies.
NthMatched(matches, k) ==
    CHOOSE i \in MatchedOverlays(matches) :
        Cardinality({j \in MatchedOverlays(matches) : j <= i}) = k

\* C16: an element matched by a popup selector is recorded as a popup
\* candidate if and only if it is visible (non-zero rendered size, display
\* not none, visibility not hidden), has an email input or a text containing
\* subscribe, newsletter, email, discount, offer or save, and has a text of
\* more than 10 characters (exactly 10 is rejected): the recorded candidates
\* are those elements, in match order.
C16_CandidateIffQualifies ==
    (PopupsDetected /\ popupProbe.fault = "none") =>
        LET matches == popupProbe.matches
            details == auditData.popups.popupDetails
        IN  /\ Len(details) = Cardinality(MatchedOverlays(matches))
            /\ \A k \in DOMAIN details :
                  LET el == matches[NthMatched(matches, k)]
                  IN  /\ details[k].hasEmailInput = el.hasEmailInput
                      /\ details[k].width = el.box.width
                      /\ details[k].height = el.box.height
                      /\ details[k].text.len = IF el.text.len > 200 THEN 200
                                               ELSE el.text.len

\* A scan met a shown form with an email input and the 10-character text
\* "save today", and then one with an 11-character text: only the second is
\* recorded.
C16_Witness ==
    /\ PopupsDetected
    /\ popupProbe.fault = "none"
    /\ Len(popupProbe.matches) = 2
    /\ popupProbe.matches[1].box.width > 0
    /\ popupProbe.matches[1].hasEmailInput
    /\ popupProbe.matches[1].text.len = 10
    /\ popupProbe.matches[2].text.len = 11
    /\ Len(auditData.popups.popupDetails) = 1
    /\ auditData.popups.popupDetails[1].text.len = 11

\* A shown overlay with a long enough text, no email input and no
\* discount-indicating text.
IsPlainOverlay(el) ==
    /\ el.box.width > 0 /\ el.box.height > 0
    /\ el.box.display # "none" /\ el.box.visibility # "hidden"
    /\ el.text.len > 10
    /\ ~el.hasEmailInput
    /\ ~DiscountIndicating(el)

HasKeyword(el) ==
    Lower(el.text.words) \cap
        {"subscribe", "newsletter", "email", "discount", "offer", "save"} # {}

\* The scan met one element, and it is a plain overlay.
OnlyPlainOverlay ==
    /\ PopupsDetected
    /\ popupProbe.fault = "none"
    /\ Len(popupProbe.matches) = 1
    /\ IsPlainOverlay(popupProbe.matches[1])

\* C17 as claimed: an overlay that is visible and has a text longer than
\* the minimum length, but neither an email input nor discount-indicating
\* text, yields hasPopup = true with popupType General Popup.
C17_PlainOverlayIsGeneral ==
    OnlyPlainOverlay =>
        /\ auditData.popups.hasPopup
        /\ auditData.popups.popupType = "General Popup"

\* C17 as amended: such an overlay yields hasPopup = true with popupType
\* General Popup if its text contains one of subscribe, newsletter, email,
\* discount, offer, save; without any of them it is no popup candidate and
\* the finding stays hasPopup = false with no popupType.
C17_PlainOverlayNeedsKeyword ==
    OnlyPlainOverlay =>
        IF HasKeyword(popupProbe.matches[1])
        THEN /\ auditData.popups.hasPopup
             /\ auditData.popups.popupType = "General Popup"
        ELSE /\ ~auditData.popups.hasPopup
             /\ auditData.popups.popupType = Null

\* The newsletter overlay without email input, found as a General Popup.
C17_Witness ==
    /\ OnlyPlainOverlay
    /\ "newsletter" \in Lower(popupProbe.matches[1].text.words)
    /\ auditData.popups.hasPopup
    /\ auditData.popups.popupType = "General Popup"
    /\ auditData.classification = "popup_detected"

\* The current audit has taken its performance snapshot from a page without
\* navigation-timing entry.
MeasuredWithoutNavigation ==
    /\ auditPc \in {"ecommerce", "returned"}
    /\ metricsPage.fault = "noNavigation"

\* C18: when the page has no navigation-timing entry, getPerformanceMetrics
\* returns an empty snapshot (no fields) and does not throw, and the audit of
\* the site is not failed by it.
C18_NoNavigationGivesEmptySnapshot ==
    /\ faultAt # "metrics"
    /\ MeasuredWithoutNavigation =>
          LET record == IF auditPc = "returned" THEN ret ELSE auditData
          IN  DOMAIN record.metrics.performance = {}

\* An audit of such a page has returned its record.
C18_Witness ==
    /\ auditPc = "returned"
    /\ metricsPage.fault = "noNavigation"
    /\ DOMAIN ret.metrics = {"performance"}
    /\ DOMAIN ret.metrics.performance = {}
    /\ Len(ret.pages) >= 2

\* The positions of the Accessibility issues among the issues of the battery.
AccessibilityIssues ==
    {i \in DOMAIN auditData.issues : auditData.issues[i].type = "Accessibility"}

\* The battery has run and its alt-text probe has counted the images.
AltProbeAnswered == ChecksRun /\ checkPage.faultAt \notin {1, 2}

\* C19: for every k > 0, a page with exactly k images lacking an alt
\* attribute yields exactly one Accessibility issue, whose description states
\* the count k; a page with no such image yields no Accessibility issue (the
\* page being one whose alt-text probe is reached and answers).
C19_OneAccessibilityIssueWithCount ==
    AltProbeAnswered =>
        IF checkPage.imagesWithoutAlt > 0
        THEN /\ Cardinality(AccessibilityIssues) = 1
             /\ \A i \in AccessibilityIssues :
                   auditData.issues[i].issue =
                       ToString(checkPage.imagesWithoutAlt) \o " images missing alt text"
        ELSE AccessibilityIssues = {}

\* A page with two images without alt attribute, and other findings around
\* the Accessibility issue.
C19_Witness ==
    /\ auditPc = "report"
    /\ checkPage.faultAt = 0
    /\ checkPage.imagesWithoutAlt = 2
    /\ ~checkPage.hasMetaDescription
    /\ checkPage.h1Count = 0
    /\ auditData.issues[2] = [type |-> "Accessibility", issue |-> "2 images missing alt text"]

\* The homepage navigation of the current audit is about to start, or is the
\* last thing the audit did to the page.
AtHomeNavigation ==
    \/ auditPc = "gotoHome"
    \/ log # <<>> /\ log[Len(log)] = "goto home"

\* C20: in every audit the desktop viewport is applied before the homepage
\* navigation starts, whatever viewport the previous audit left the session
\* in.
C20_DesktopBeforeNavigation ==
    /\ AtHomeNavigation => viewport = defaultViewport
    /\ \A i \in DOMAIN log :
          log[i] = "goto home" => Preceded(i, "setViewport desktop")

\* The previous audit left the mobile viewport behind, and the homepage of
\* the next site was loaded in the desktop one.
C20_Witness ==
    /\ idx = 2
    /\ enteredWith = mobileViewport
    /\ auditPc = "detectShopify"
    /\ log[Len(log)] = "goto home"
    /\ viewport = defaultViewport

\* puppeteer.launch rejected: main has left its try block with no browser.
LaunchFailed ==
    /\ websites # <<>>
    /\ browser = Null
    /\ mainPc \in {"catch", "exited"}

\* C21: if the browser cannot be launched the whole batch fails: no site is
\* audited, no result record is produced, and the process ends with a
\* failure status.
C21_LaunchFailureFailsBatch ==
    LaunchFailed =>
        /\ results = <<>>
        /\ auditPc = "idle"
        /\ enteredWith = NoViewport
        /\ log = <<>>
        /\ mainPc = "exited" => exitCode = 1

\* The process has ended after a failed launch, with sites left to audit.
C21_Witness ==
    /\ LaunchFailed
    /\ mainPc = "exited"
    /\ exitCode = 1
    /\ Len(websites) = 2
    /\ results = <<>>

\* C22: close() is idempotent and safe when the session was never opened:
\* before initialize it does nothing, and called twice after initialize it
\* tears the browser down exactly once, the second call having no further
\* effect (no second close of the browser).
C22_CloseIdempotent ==
    /\ browser = Null => closeCalls = 0
    /\ closeCalls <= 1

\* The navigation timeout the settings in force configure, 30 seconds when
\* they configure none.
ConfiguredNavigationTimeout ==
    IF "navigationTimeout" \in DOMAIN settings.audit
    THEN settings.audit.navigationTimeout
    ELSE 30000

\* A navigation of the current audit ran into its time bound.
NavigationTimedOut ==
    /\ faultAt \in {"gotoHome", "productGoto", "gotoMobile"}
    /\ auditErr.message # "net::ERR_NAME_NOT_RESOLVED"

\* C23: every navigation of an audit (homepage, product page, mobile
\* homepage) is bounded by the configured navigation timeout, which is 30
\* seconds only when no value is configured: a navigation that times out
\* does so after the configured time.
C23_NavigationBoundIsConfigured ==
    NavigationTimedOut =>
        auditErr.message =
            "Navigation timeout of " \o ToString(ConfiguredNavigationTimeout)
                \o " ms exceeded"

\* The value of an option the runner and the auditor act on under the
\* settings in force: what their reads of it give, fallbacks included.
ActsOn(option) ==
    CASE option = <<"audit", "navigationTimeout">> -> DefaultNavigationTimeout(settings)
      [] option = <<"audit", "maxProductPages">> ->
            OrDefault(settings, "audit", "maxProductPages", 3)
      [] option = <<"audit", "delayBetweenAudits">> -> DelayBetweenAudits(settings)
      [] option = <<"performance", "slowLoadTime">> ->
            OrDefault(settings, "performance", "slowLoadTime", 3000)
      [] option = <<"browser", "defaultViewport">> -> LaunchViewport(settings)

\* The value config/settings.js documents for an option.
Documented(option) == defaultSettings[option[1]][option[2]]

\* The options that are read into a value of the model (all but headless).
ReadOptions == Options \ {<<"browser", "headless">>}

\* C24: for every custom settings record that supplies only a subset of the
\* recognized options (a subset of the options of one section included),
\* each option it does not supply takes its documented default value in the
\* settings the batch runner and the auditor act on (once the session runs).
C24_UnsuppliedOptionsDefault ==
    \A supplied \in SUBSET Options :
        (SessionReady /\ settings = GetSettings(supplied)) =>
            \A option \in ReadOptions \ supplied : ActsOn(option) = Documented(option)

\* The runner has just recorded the failure of the audit that ended last.
FailureJustRecorded ==
    /\ mainPc = "loop"
    /\ faultAt # "none"
    /\ Len(results) = idx - 1
    /\ results # <<>>
    /\ ForFailedSite(results[Len(results)])

\* C25: the error description recorded for a failed site is the message of
\* the fault that aborted that site's audit (the navigation timeout message,
\* say), not the message of some other error raised while the failure record
\* was built.
C25_RecordedErrorIsTheFault ==
    FailureJustRecorded => results[Len(results)].error = auditErr.message

\* The temporary directory of the current audit exists: it was made and has
\* not been removed since.
TempDirectoryExists ==
    \E i \in DOMAIN log :
        /\ log[i] = "mkdir temp"
        /\ \A j \in (i + 1)..Len(log) : log[j] # "rmdir temp"

\* C26: the temporary directory audits/temp_<site>_<timestamp> that
\* auditWebsite makes at the start of an audit no longer exists when that
\* audit ends, on the success path and on every failure path after its
\* creation.
C26_TempDirectoryRemoved == AuditEnded => ~TempDirectoryExists

\* The returned record carries a Performance issue.
HasPerformanceIssue(record) ==
    \E i \in DOMAIN record.issues : record.issues[i].type = "Performance"

\* The load time stored in the metrics of the record exceeds the threshold.
StoredLoadTimeSlow(record) ==
    /\ "loadTime" \in DOMAIN record.metrics.performance
    /\ record.metrics.performance.loadTime > settings.performance.slowLoadTime

\* C27: in every successful audit record a Performance issue is
\* present if and only if the recorded metrics.performance.loadTime exceeds
\* the slow-load threshold (the battery judges the measurement the metrics
\* store).
C27_IssueIffStoredLoadTimeSlow ==
    auditPc = "returned" => (HasPerformanceIssue(ret) <=> StoredLoadTimeSlow(ret))

\* A sequence without duplicates.
NoDuplicates(seq) ==
    \A i, j \in DOMAIN seq : seq[i] = seq[j] => i = j

\* C28: every popup finding returned by detectPopupsAndEmailPlatforms,
\* faulted or not, satisfies: hasPopup is true if and only if popupDetails is
\* non-empty if and only if popupType is not none; emailPlatform is none if
\* and only if emailPlatformDetails is empty, otherwise it is the first
\* element of emailPlatformDetails, which contains no duplicates.
C28_FindingConsistent ==
    PopupsDetected =>
        LET finding == auditData.popups
        IN  /\ finding.hasPopup <=> Len(finding.popupDetails) > 0
            /\ finding.hasPopup <=> finding.popupType # Null
            /\ finding.emailPlatform = Null <=> Len(finding.emailPlatformDetails) = 0
            /\ Len(finding.emailPlatformDetails) > 0 =>
                  finding.emailPlatform = finding.emailPlatformDetails[1]
            /\ NoDuplicates(finding.emailPlatformDetails)

\* A finding with a popup and two platforms, Klaviyo the first of them.
C28_Witness ==
    /\ PopupsDetected
    /\ auditData.popups.hasPopup
    /\ auditData.popups.popupType = "Email Signup"
    /\ auditData.popups.emailPlatformDetails = <<"Klaviyo", "Sumo">>
    /\ auditData.popups.emailPlatform = "Klaviyo"

\* main has ended (by resolving or by process.exit in its catch, not by a
\* signal) after puppeteer.launch succeeded.
EndedAfterLaunch ==
    /\ mainPc = "exited"
    /\ browser # Null

\* C29: on every path by which the batch runner ends after the browser was
\* launched (normal completion, a fault in initialize after the launch
\* succeeded, a fault after the loop), close() has been called on the
\* browser before the process ends.
C29_ClosedBeforeExit ==
    EndedAfterLaunch => (closeCalls >= 1 /\ browser = "closed")

\* An overlay that qualified without an email input because the full text
\* contains discount, offer or save, in any case.
QualifiedByDiscountWord(matches) ==
    \E i \in MatchedOverlays(matches) :
        /\ ~matches[i].hasEmailInput
        /\ Lower(matches[i].text.words) \cap {"discount", "offer", "save"} # {}

\* C30: if some overlay qualified as a popup candidate without an email
\* input because its text contains discount, offer or save, then popupType
\* is a discount type (Discount Offer or Email + Discount), wherever in the
\* text the keyword occurs: the scan over the full text and the scan over
\* the 200-character preview agree.
C30_DiscountWordGivesDiscountType ==
    (PopupsDetected /\ popupProbe.fault = "none"
        /\ QualifiedByDiscountWord(popupProbe.matches)) =>
        auditData.popups.popupType \in {"Discount Offer", "Email + Discount"}

====
